---------------------------- MODULE Spec2Model ----------------------------
(***************************************************************************)
(* Topic clustering and incremental assignment engine of the news backend. *)
(*                                                                         *)
(* Part I   BatchCompletionCoordinator: the Redis counter protocol of      *)
(*          process_articles_batch (src/workers/tasks.py) and its          *)
(*          dispatchers (scripts/run_full_pipeline.py,                     *)
(*          scripts/run_scraper_with_pipeline.py).                         *)
(* Part II  The topic store: BatchClusterer persistence and                *)
(*          IncrementalAssigner runs over PostgreSQL. SpecDB follows one   *)
(*          date with overlapping invocations and runs; SpecBatch,         *)
(*          SpecOverlap and SpecDates widen the inputs (other dates,       *)
(*          n_topics, min_articles_per_topic, title generation, the        *)
(*          look-back window) over fewer concurrent processes.             *)
(* Part III find_best_topic on arbitrary embeddings and thresholds.        *)
(***************************************************************************)
EXTENDS Integers, Sequences, FiniteSets, TLC

(***************************************************************************)
(* Bounds of the model.                                                    *)
(***************************************************************************)
MaxTasks == 2        \* enrichment batch tasks ever created
MaxBatches == 2      \* batches of one dispatch (len(batches))
MaxDispatch == 2     \* runs of the hourly pipeline script
MaxRuns == 4         \* BatchClusterer attempts and IncrementalAssigner runs begun,
                     \* and statements failing for a reason outside the program

(***************************************************************************)
(* Program constants.                                                      *)
(***************************************************************************)
max_retries == 3     \* @celery_app.task(max_retries=3) of process_articles_batch
bertopic_max_retries == 3   \* ... of bertopic_clustering_task

Dates == {1}         \* the news date whose counter keys are followed
NoDate == 0          \* no target_news_date and no news_date of the date followed
Nil == -1            \* a Redis key that does not exist (GET returns None)

TaskIds == 1..MaxTasks

\* BatchClusterer invocations, and IncrementalAssigner runs, that can overlap
ClusterSlots == {1, 2}
AssignSlots == {1, 2}

VARIABLES
    completed,   \* Redis ai_batch_completed:<date>, Nil when the key is absent
    total,       \* Redis ai_batch_total:<date>, Nil when the key is absent
    task,        \* the process_articles_batch tasks
    disp,        \* the pipeline script, between its Redis calls
    gen,         \* per date, the number of dispatches that initialised counters
    scheduled,   \* per date, bertopic_clustering_task.apply_async calls made
    topics,      \* committed rows of table topic
    mappings,    \* committed rows of table topic_article_mapping
    pending,     \* rows of table pending_articles
    topic_id_seq,\* the BIGSERIAL sequence of topic.topic_id
    now,         \* the clock read by NOW()
    bc,          \* BatchClusterer invocations: clusters, open transaction
    ia,          \* IncrementalAssigner runs: locals of run_incremental_assignment
    begun,       \* attempts, runs and faults so far (for the bound)
    last,        \* history: the last event was a run of IncrementalAssigner
                 \* that ran alone and returned; what it assigned
    clean,       \* history: no IncrementalAssigner run overlapped another run
                 \* or stopped after inserting a mapping
    current,     \* history: topic ids and clusters of the last commit
    probe,       \* the call of find_best_topic followed on inputs outside
                 \* the articles of Part II: arguments and result
    clustered    \* the call of cluster_articles(algorithm='hierarchical')
                 \* followed: arguments, environment and result

coordVars == <<completed, total, task, disp, gen, scheduled>>

dbVars == <<topics, mappings, pending, topic_id_seq, now, bc, ia, begun, last,
            clean, current>>

fnVars == <<probe, clustered>>

vars == <<coordVars, dbVars, fnVars>>

FreeTask == [st |-> "free", target |-> NoDate, first |-> NoDate, gen |-> 0,
             completed |-> 0, retries |-> 0,
             bumped |-> FALSE, rerr |-> FALSE, retried |-> FALSE]

FreeIds == {t \in TaskIds : task[t].st = "free"}

RECURSIVE LowestN(_, _)
LowestN(S, n) ==
    IF n = 0 \/ S = {} THEN {}
    ELSE LET m == CHOOSE x \in S : \A y \in S : x <= y
         IN {m} \cup LowestN(S \ {m}, n - 1)

\* news_date_str of the counter section: the parameter, else the first
\* article's news_date.
NewsDateStr(t) == IF task[t].target # NoDate THEN task[t].target ELSE task[t].first

\* redis_client.incr: a missing key counts as 0.
RedisIncr(v) == IF v = Nil THEN 1 ELSE v + 1

\* if total and int(completed) >= int(total)
TriggerReachedStrict(c, tot) == tot # Nil /\ c > tot
TriggerReachedNoNilCheck(c, tot) == c >= tot
TriggerReached(c, tot) == tot # Nil /\ c >= tot

InitCoord ==
    /\ completed = [d \in Dates |-> Nil]
    /\ total = [d \in Dates |-> Nil]
    /\ task = [t \in TaskIds |-> FreeTask]
    /\ disp = [pc |-> "idle", date |-> NoDate, n |-> 0, runs |-> 0]
    /\ gen = [d \in Dates |-> 0]
    /\ scheduled = [d \in Dates |-> 0]

(***************************************************************************)
(* run_full_pipeline.main, lines 156-169.                                  *)
(***************************************************************************)
\* redis_client.delete(counter_key)
DispatchDelete(d, n) ==
    /\ disp.pc = "idle"
    /\ disp.runs < MaxDispatch
    /\ n <= Cardinality(FreeIds)
    /\ completed' = [completed EXCEPT ![d] = Nil]
    /\ disp' = [pc |-> "set", date |-> d, n |-> n, runs |-> disp.runs + 1]
    /\ UNCHANGED <<total, task, gen, scheduled, dbVars, fnVars>>

\* redis_client.set(total_key, len(batches))
DispatchSet ==
    /\ disp.pc = "set"
    /\ total' = [total EXCEPT ![disp.date] = disp.n]
    /\ gen' = [gen EXCEPT ![disp.date] = @ + 1]
    /\ disp' = [disp EXCEPT !.pc = "enqueue"]
    /\ UNCHANGED <<completed, task, scheduled, dbVars, fnVars>>

\* for batch in batches: process_articles_batch.apply_async(args=[batch, news_date_str])
DispatchEnqueue ==
    /\ disp.pc = "enqueue"
    /\ LET ids == LowestN(FreeIds, disp.n)
       IN task' = [t \in TaskIds |->
                     IF t \in ids
                     THEN [FreeTask EXCEPT !.st = "queued", !.target = disp.date,
                                           !.first = disp.date, !.gen = gen[disp.date]]
                     ELSE task[t]]
    /\ disp' = [disp EXCEPT !.pc = "idle", !.date = NoDate, !.n = 0]
    /\ UNCHANGED <<completed, total, gen, scheduled, dbVars, fnVars>>

(***************************************************************************)
(* run_scraper_with_pipeline.main, lines 104-114: a batch without          *)
(* target_news_date; d is the news_date of its first article.              *)
(***************************************************************************)
ChainEnqueue(d) ==
    /\ Cardinality(FreeIds) > disp.n      \* ids kept for the batches being dispatched
    /\ LET t == CHOOSE x \in FreeIds : \A y \in FreeIds : x <= y
       IN task' = [task EXCEPT ![t] = [FreeTask EXCEPT !.st = "queued", !.first = d]]
    /\ UNCHANGED <<completed, total, disp, gen, scheduled, dbVars, fnVars>>

(***************************************************************************)
(* process_articles_batch, lines 47-207.                                   *)
(***************************************************************************)
\* lines 74-82: no article of the batch has content and title
BatchNoValid(t) ==
    /\ task[t].st = "queued"
    /\ task' = [task EXCEPT ![t].st = "error"]
    /\ UNCHANGED <<completed, total, disp, gen, scheduled, dbVars, fnVars>>

\* lines 88-94, 204-207: the AI service call raises; self.retry re-queues the
\* task until max_retries is exhausted, then the task fails.
BatchAIFail(t) ==
    /\ task[t].st = "queued"
    /\ task' = IF task[t].retries < max_retries
               THEN [task EXCEPT ![t].retries = @ + 1, ![t].retried = TRUE]
               ELSE [task EXCEPT ![t].st = "failed"]
    /\ UNCHANGED <<completed, total, disp, gen, scheduled, dbVars, fnVars>>

\* lines 96-165: the results are saved; a result with an error, or one whose
\* save raises, only adds to failed_count (lines 102-105, 145-147), so the
\* counter section is reached whether all, some or none of the articles
\* succeeded. It then picks its news_date_str.
BatchProcessed(t) ==
    /\ task[t].st = "queued"
    /\ task' = [task EXCEPT ![t].retries = 0,
                            ![t].st = IF NewsDateStr(t) # NoDate THEN "incr" ELSE "success"]
    /\ UNCHANGED <<completed, total, disp, gen, scheduled, dbVars, fnVars>>

\* line 173: completed = redis_client.incr(counter_key)
CounterIncr(t) ==
    /\ task[t].st = "incr"
    /\ LET d == NewsDateStr(t)
           c == RedisIncr(completed[d])
       IN /\ completed' = [completed EXCEPT ![d] = c]
          /\ task' = [task EXCEPT ![t].completed = c, ![t].bumped = TRUE, ![t].st = "get"]
    /\ UNCHANGED <<total, disp, gen, scheduled, dbVars, fnVars>>

\* lines 174-179: total = redis_client.get(total_key), then the comparison
CounterGet(t) ==
    /\ task[t].st = "get"
    /\ LET tot == total[NewsDateStr(t)]
       IN task' = IF TriggerReached(task[t].completed, tot)
                  THEN [task EXCEPT ![t].completed = 0, ![t].st = "sched"]
                  ELSE [task EXCEPT ![t].completed = 0, ![t].st = "success"]
    /\ UNCHANGED <<completed, total, disp, gen, scheduled, dbVars, fnVars>>

\* lines 184-187: bertopic_clustering_task.apply_async(countdown=60)
CounterSchedule(t) ==
    /\ task[t].st = "sched"
    /\ scheduled' = [scheduled EXCEPT ![NewsDateStr(t)] = @ + 1]
    /\ task' = [task EXCEPT ![t].st = "del1"]
    /\ UNCHANGED <<completed, total, disp, gen, dbVars, fnVars>>

\* line 192: redis_client.delete(counter_key)
CounterDelCompleted(t) ==
    /\ task[t].st = "del1"
    /\ completed' = [completed EXCEPT ![NewsDateStr(t)] = Nil]
    /\ task' = [task EXCEPT ![t].st = "del2"]
    /\ UNCHANGED <<total, disp, gen, scheduled, dbVars, fnVars>>

\* line 193: redis_client.delete(total_key)
CounterDelTotal(t) ==
    /\ task[t].st = "del2"
    /\ total' = [total EXCEPT ![NewsDateStr(t)] = Nil]
    /\ task' = [task EXCEPT ![t].st = "success"]
    /\ UNCHANGED <<completed, disp, gen, scheduled, dbVars, fnVars>>

\* lines 194-195: "except Exception as e: logger.warning(...)" of the counter
\* section; the execution goes on to the return of lines 197-202. tk is the
\* task's record when the exception is raised.
AfterCounterErrorRetried(tk) ==
    IF tk.retries < max_retries
    THEN [tk EXCEPT !.st = "queued", !.retries = @ + 1, !.retried = TRUE,
                    !.rerr = TRUE, !.completed = 0]
    ELSE [tk EXCEPT !.st = "failed", !.rerr = TRUE, !.completed = 0]
AfterCounterError(tk) ==
    [tk EXCEPT !.st = "success", !.rerr = TRUE, !.completed = 0]

\* lines 167-195: a call of the counter section raises (the article lookup,
\* INCR, GET, apply_async or a DELETE)
CounterError(t) ==
    /\ task[t].st \in {"incr", "get", "sched", "del1", "del2"}
    /\ task' = [task EXCEPT ![t] = AfterCounterError(task[t])]
    /\ UNCHANGED <<completed, total, disp, gen, scheduled, dbVars, fnVars>>

NextCoord ==
    \/ \E d \in Dates, n \in 1..MaxBatches : DispatchDelete(d, n)
    \/ DispatchSet
    \/ DispatchEnqueue
    \/ \E d \in Dates \cup {NoDate} : ChainEnqueue(d)
    \/ \E t \in TaskIds : BatchNoValid(t)
    \/ \E t \in TaskIds : BatchAIFail(t)
    \/ \E t \in TaskIds : BatchProcessed(t)
    \/ \E t \in TaskIds : CounterIncr(t)
    \/ \E t \in TaskIds : CounterGet(t)
    \/ \E t \in TaskIds : CounterSchedule(t)
    \/ \E t \in TaskIds : CounterDelCompleted(t)
    \/ \E t \in TaskIds : CounterDelTotal(t)
    \/ \E t \in TaskIds : CounterError(t)

(***************************************************************************)
(* Part II  The topic store in PostgreSQL (READ COMMITTED):                *)
(*          BatchClusterer persistence (TopicClusterer.save_topics_to_db,  *)
(*          bertopic_clustering_task) and IncrementalAssigner runs         *)
(*          (src/services/incremental_assignment.py).                      *)
(***************************************************************************)
\* Table article: all rows have an embedding. Articles 1, 2, 3 belong to the
\* date followed and were published in the order of their ids; article 4
\* belongs to another date and was published before them. A third date has
\* no article.
Articles == {1, 2, 3, 4}
Embedding(a) == CASE a = 1 -> <<0, 1, 1>>
                  [] a = 2 -> <<1, 1, 0>>
                  [] a = 3 -> <<2, 1, 0>>
                  [] OTHER -> <<0, 0, 1>>
news_date(a) == IF a = 4 THEN 2 ELSE 1
published_at(a) == IF a = 4 THEN 0 ELSE a
TopicDates == {1, 2, 3}
ArticleDates == {news_date(a) : a \in Articles}

\* cutoff times of get_new_articles: Recent takes in the articles of the date
\* followed, Later is past the time the last of them was published
Recent == 1
Later == 4
Cutoffs == {Recent, Later}

\* get_articles_with_embeddings / fetch_articles_with_embeddings:
\* WHERE news_date = d AND embedding IS NOT NULL
ArticlesOf(d) == {a \in Articles : news_date(a) = d}

NoTopic == 0                        \* None as a topic id; topic ids start at 1
similarity_threshold == <<1, 2>>    \* 0.5, as numerator and denominator
ZeroSim == <<0, 1>>                 \* the similarity 0.0

(***************************************************************************)
(* Vectors. A unit vector is represented by the primitive integer vector   *)
(* of its direction, so that equality of centroids is exact. A cosine      *)
(* similarity c is represented by c * |c| as a reduced fraction <<n, d>>,   *)
(* d > 0; the order of these fractions is the order of the cosines.        *)
(***************************************************************************)
Abs(x) == IF x < 0 THEN -x ELSE x

RECURSIVE Gcd(_, _)
Gcd(a, b) == IF b = 0 THEN a ELSE Gcd(b, a % b)

Dot(u, v) == u[1] * v[1] + u[2] * v[2] + u[3] * v[3]

\* utils/embeddings.py normalize_vector: v / |v|, the zero vector unchanged
normalize_vector(v) ==
    LET g == Gcd(Gcd(Abs(v[1]), Abs(v[2])), Abs(v[3]))
    IN IF g = 0 THEN v ELSE <<v[1] \div g, v[2] \div g, v[3] \div g>>

\* utils/embeddings.py calculate_cosine_similarity
calculate_cosine_similarity(u, v) ==
    LET n == Dot(u, v) * Abs(Dot(u, v))
        d == Dot(u, u) * Dot(v, v)
        g == Gcd(Abs(n), d)
    IN IF d = 0 THEN ZeroSim ELSE <<n \div g, d \div g>>

\* similarity > best_similarity
SimGreater(s, b) == s[1] * b[2] > b[1] * s[2]

\* best_similarity >= self.similarity_threshold, thr a fraction p/q >= 0
SimAtLeast(s, thr) == s[1] * thr[2] * thr[2] >= thr[1] * thr[1] * s[2]

RECURSIVE VSum(_)
VSum(S) ==
    IF S = {} THEN <<0, 0, 0>>
    ELSE LET a == CHOOSE x \in S : TRUE
             r == VSum(S \ {a})
             e == Embedding(a)
         IN <<e[1] + r[1], e[2] + r[2], e[3] + r[3]>>

MaxOf(S) == CHOOSE x \in S : \A y \in S : published_at(x) >= published_at(y)
MinOf(S) == CHOOSE x \in S : \A y \in S : published_at(x) <= published_at(y)

\* centroid = np.mean(embeddings, axis=0); centroid / np.linalg.norm(centroid)
\* (the factor 1/n of the mean does not change the direction)
CentroidOfNewest(S) == normalize_vector(Embedding(MaxOf(S)))
Centroid(S) == normalize_vector(VSum(S))

\* select_representative_article: np.argmax of the similarities to the
\* centroid, of equals the first in fetch order (ORDER BY published_at DESC)
Representative(S) ==
    CHOOSE a \in S : \A b \in S :
        LET sa == calculate_cosine_similarity(Embedding(a), Centroid(S))
            sb == calculate_cosine_similarity(Embedding(b), Centroid(S))
        IN SimGreater(sa, sb) \/ (sa = sb /\ published_at(a) >= published_at(b))

\* main_article_id of a topic. TopicClusterer takes the article closest to
\* the centroid; bertopic_clustering_task takes topic['article_ids'][0], the
\* first article in the order of the clustering service's list, which the
\* program does not fix: the newest and the oldest member are followed.
ServiceOrders == {"newest", "oldest"}
MainArticle(kind, cluster) ==
    CASE kind = "closest" -> Representative(cluster)
      [] kind = "newest" -> MaxOf(cluster)
      [] OTHER -> MinOf(cluster)

\* KMeans/DBSCAN/hierarchical labels grouped by label: families of disjoint
\* non-empty clusters of the date's articles (an article left out is noise or
\* in a cluster below min_articles_per_topic). The results followed:
Clusterings == {{{1}}, {{2, 3}}, {{1, 3}, {2}}}

\* the label groups of the articles of date d
ClusteringsOf(d) == CASE d = 1 -> Clusterings
                      [] d = 2 -> {{{4}}}
                      [] OTHER -> {{}}
AllClusterings == UNION {ClusteringsOf(x) : x \in TopicDates}

\* DBSCAN(eps=0.3, min_samples=self.min_articles_per_topic, metric='cosine'):
\* two articles are neighbours when their cosine distance is at most eps,
\* i.e. their cosine is at least 0.7; an article is its own neighbour
dbscan_min_cosine == <<7, 10>>
Neighbours(S, a) ==
    {b \in S : LET s == calculate_cosine_similarity(Embedding(a), Embedding(b))
               IN SimAtLeast(s, dbscan_min_cosine)}
CorePoints(S, m) == {a \in S : Cardinality(Neighbours(S, a)) >= m}

\* the core points density-reachable from those of X
RECURSIVE Expand(_, _, _)
Expand(S, cores, X) ==
    LET Y == X \cup {b \in cores : \E a \in X : b \in Neighbours(S, a)}
    IN IF Y = X THEN X ELSE Expand(S, cores, Y)

\* label -1: neither a core point nor a neighbour of one
DbscanNoise(S, m) ==
    {a \in S : a \notin CorePoints(S, m) /\ Neighbours(S, a) \cap CorePoints(S, m) = {}}

\* labels 0, 1, ...: the components of the core points, each with the border
\* points that joined it (a border point joins one component it touches)
DbscanClusters(S, m) ==
    LET cores == CorePoints(S, m)
        comps == {Expand(S, cores, {a}) : a \in cores}
        home(b) == CHOOSE c \in comps : Neighbours(S, b) \cap c # {}
    IN {c \cup {b \in S \ (cores \cup DbscanNoise(S, m)) : home(b) = c} : c \in comps}

\* save_topics_to_db, lines 274-279: the articles grouped by label, the label
\* -1 like any other
LabelGroups(S, m) ==
    DbscanClusters(S, m) \cup (IF DbscanNoise(S, m) = {} THEN {} ELSE {DbscanNoise(S, m)})

\* TopicClusterer(n_topics=7, min_articles_per_topic=1) and the other values
\* of the two parameters followed
n_topics == 7
min_articles_per_topic == 1
TopNs == {1, n_topics}
Minimums == {min_articles_per_topic, 2}
DensityMinimums == {min_articles_per_topic, 2, 3}

\* cluster_daily_topics: `if not articles` and
\* `if len(articles) < self.min_articles_per_topic` return a failure
EnoughAlways(arts, m) == TRUE
EnoughArticles(arts, m) == arts # {} /\ Cardinality(arts) >= m

\* sorted_clusters[:self.n_topics]
TopNAll(seq, n) == seq
TopN(seq, n) == SubSeq(seq, 1, IF Len(seq) < n THEN Len(seq) ELSE n)

\* generate_topics_from_clusters: the ranks of the clusters for which a title
\* came back; none when the call raised or timed out (topic_titles_map = {})
ClusterRanks == {1, 2}
TitleOutcomes == SUBSET ClusterRanks
AllTitled == ClusterRanks

\* sorted(valid_clusters.items(), key=len, reverse=True): stable, equal sizes
\* stay in the order of their first article in the fetch (newest first)
RECURSIVE Ranked(_)
Ranked(P) ==
    IF P = {} THEN <<>>
    ELSE LET c == CHOOSE x \in P : \A e \in P :
                      \/ Cardinality(x) > Cardinality(e)
                      \/ /\ Cardinality(x) = Cardinality(e)
                         /\ published_at(MaxOf(x)) >= published_at(MaxOf(e))
         IN <<c>> \o Ranked(P \ {c})

\* ORDER BY a.published_at DESC
RECURSIVE NewestFirst(_)
NewestFirst(S) ==
    IF S = {} THEN <<>>
    ELSE LET a == MaxOf(S)
         IN <<a>> \o NewestFirst(S \ {a})

\* ORDER BY topic_rank
RECURSIVE ByRank(_)
ByRank(T) ==
    IF T = {} THEN <<>>
    ELSE LET t == CHOOSE x \in T : \A y \in T :
                      x.rank < y.rank \/ (x.rank = y.rank /\ x.id <= y.id)
         IN <<t>> \o ByRank(T \ {t})

IdleCluster == [st |-> "idle", date |-> NoDate,
                minimum |-> min_articles_per_topic, topn |-> n_topics,
                plan |-> <<>>, titled |-> {}, main |-> "closest",
                ids |-> <<>>, del |-> {}, snap |-> {}, retries |-> 0,
                err |-> "none", partial |-> FALSE]

\* The transaction of r is over: its locals are dropped. partial records
\* that it stopped after its DELETE and after the insert of a topic.
Closed(r, st, err) ==
    [bc[r] EXCEPT !.st = st, !.err = err, !.plan = <<>>, !.titled = {},
                  !.ids = <<>>,
                  !.del = {}, !.snap = {},
                  !.partial = (st = "failed" /\ bc[r].del # {} /\ bc[r].ids # <<>>)]

IdleAssign == [st |-> "idle", date |-> NoDate, cutoff |-> 0, cands |-> <<>>,
               snap |-> <<>>,
               updated |-> {}, newc |-> {}, assigned |-> 0, err |-> "none",
               alone |-> FALSE, second |-> FALSE, prevAssigned |-> 0]

\* find_best_topic not yet called on other inputs
NoProbe == [called |-> FALSE]

\* cluster_articles not yet called
NoClustering == [called |-> FALSE]

\* pending_articles has no row for the article
NoPending == [reason |-> "none", sim |-> ZeroSim, at |-> 0]

\* SELECT reason, max_similarity, added_at FROM pending_articles
\* WHERE article_id = a
Entry(P, a) ==
    IF \E p \in P : p.article = a
    THEN LET p == CHOOSE x \in P : x.article = a
         IN [reason |-> p.reason, sim |-> p.sim, at |-> p.at]
    ELSE NoPending

InitDB ==
    /\ topics = {}
    /\ mappings = {}
    /\ pending = {}
    /\ topic_id_seq = 1
    /\ now = 0
    /\ bc = [r \in ClusterSlots |-> IdleCluster]
    /\ ia = [r \in AssignSlots |-> IdleAssign]
    /\ begun = 0
    /\ last = [ok |-> FALSE, assigned |-> 0]
    /\ clean = TRUE
    /\ current = [ids |-> <<>>, plan |-> <<>>]

Init == InitCoord /\ InitDB /\ probe = NoProbe /\ clustered = NoClustering

(***************************************************************************)
(* Rows, constraints and transactions.                                     *)
(***************************************************************************)
Range(s) == {s[i] : i \in 1..Len(s)}

TopicIds == {t.id : t \in topics}
MembersIn(M, tid) == {m.article : m \in {x \in M : x.topic = tid}}
Members(tid) == MembersIn(mappings, tid)

\* uq_topic_date_rank UNIQUE (topic_date, topic_rank)
InsertTopicOutcomeNoRankKey(T, row) == "ok"
InsertTopicOutcome(T, row) ==
    IF \E t \in T : t.date = row.date /\ t.rank = row.rank THEN "unique" ELSE "ok"

\* INSERT INTO topic_article_mapping ... ON CONFLICT (topic_id, article_id)
\* DO NOTHING, under uq_topic_article (the conflict target),
\* uq_article_topic_date and the foreign key to topic
InsertMappingOutcomeNoDateKey(M, ids, row) ==
    IF \E m \in M : m.topic = row.topic /\ m.article = row.article THEN "noop"
    ELSE IF row.topic \notin ids THEN "fk"
    ELSE "ok"
InsertMappingOutcomeNoForeignKey(M, ids, row) ==
    IF \E m \in M : m.topic = row.topic /\ m.article = row.article THEN "noop"
    ELSE IF \E m \in M : m.article = row.article /\ m.date = row.date THEN "unique"
    ELSE "ok"
InsertMappingOutcome(M, ids, row) ==
    IF \E m \in M : m.topic = row.topic /\ m.article = row.article THEN "noop"
    ELSE IF \E m \in M : m.article = row.article /\ m.date = row.date THEN "unique"
    ELSE IF row.topic \notin ids THEN "fk"
    ELSE "ok"

\* trg_update_article_count_insert, AFTER INSERT ON topic_article_mapping:
\* UPDATE topic SET article_count = article_count + 1 WHERE topic_id = tid
CountInsert(T, tid) ==
    {IF t.id = tid THEN [t EXCEPT !.article_count = @ + 1] ELSE t : t \in T}

\* get_db_connection: conn.commit() makes the deletes and inserts of the
\* transaction visible at once; conn.rollback() on an exception drops them.
Commit(rows, gone, new) == (rows \ gone) \cup new
RollbackKeepsWrites(rows, gone, new) == (rows \ gone) \cup new
Rollback(rows, gone, new) == rows

InTxn(b) == b.st \in {"blocked", "insert"}
InProgress(a) == a.st \in {"fetched", "loop", "notopics", "recompute", "write"}

\* topic rows locked by the DELETE of a transaction other than r's
LockedByOthers(r) ==
    UNION {bc[q].del : q \in {x \in ClusterSlots : x # r /\ InTxn(bc[x])}}

\* the rows a BatchClusterer transaction has inserted so far
\* topic_titles_map.get(cluster_label, representative_article['title']):
\* the generated title, or the title of the representative article
TopicTitleNoFallback(titled, i, cluster) ==
    [generated |-> i \in titled, article |-> 0]
TopicTitle(titled, i, cluster) ==
    IF i \in titled THEN [generated |-> TRUE, article |-> 0]
    ELSE [generated |-> FALSE, article |-> Representative(cluster)]

\* (article_count is inserted as 0 and raised by the trigger
\* trg_update_article_count_insert with each mapping of the topic)
NewTopicsOf(r) ==
    {[id |-> bc[r].ids[i], date |-> bc[r].date, rank |-> i,
      centroid |-> Centroid(bc[r].plan[i]),
      main |-> MainArticle(bc[r].main, bc[r].plan[i]),
      title |-> TopicTitle(bc[r].titled, i, bc[r].plan[i]),
      article_count |-> Cardinality(bc[r].plan[i])] : i \in 1..Len(bc[r].ids)}
NewMappingsOf(r) ==
    UNION {{[topic |-> bc[r].ids[i], article |-> a, date |-> bc[r].date,
             sim |-> calculate_cosine_similarity(Embedding(a),
                        Embedding(Representative(bc[r].plan[i])))]
            : a \in bc[r].plan[i]} : i \in 1..Len(bc[r].ids)}
GoneTopicsOf(r) == {t \in topics : t.id \in bc[r].del}
GoneMappingsOf(r) == {m \in mappings : m.topic \in bc[r].del}

\* Another run starts: the runs in progress no longer run alone.
Disturb(f) == [r \in AssignSlots |->
                 IF InProgress(f[r]) THEN [f[r] EXCEPT !.alone = FALSE] ELSE f[r]]
OthersActive(r) ==
    \/ \E q \in ClusterSlots : InTxn(bc[q])
    \/ \E q \in AssignSlots : q # r /\ InProgress(ia[q])

(***************************************************************************)
(* BatchClusterer: save_topics_to_db (clustering.py 339-422) and the       *)
(* transaction of bertopic_clustering_task (tasks.py 294-399).             *)
(***************************************************************************)
\* The clusters are ready; the transaction opens with
\* DELETE FROM topic WHERE topic_date = d (the mappings go with their topic).
\* It waits when a row to delete is locked by another transaction.
DeleteAllDates(T, d) == {t.id : t \in T}
DeleteFromTopic(T, d) == {t.id : t \in {x \in T : x.date = d}}

StartPersistence(r, d, m, n, plan, titled, main, retries, err) ==
    LET cur == DeleteFromTopic(topics, d)
        free == cur \cap LockedByOthers(r) = {}
    IN /\ bc' = [bc EXCEPT ![r] =
                   [st |-> IF free THEN "insert" ELSE "blocked",
                    date |-> d, minimum |-> m, topn |-> n, plan |-> plan,
                    titled |-> titled \cap (1..Len(plan)), main |-> main,
                    ids |-> <<>>,
                    del |-> IF free THEN cur ELSE {},
                    snap |-> IF free THEN {} ELSE cur,
                    retries |-> retries, err |-> err, partial |-> FALSE]]
       /\ ia' = Disturb(ia)
       /\ last' = [ok |-> FALSE, assigned |-> 0]
       /\ clean' = (clean /\ \A q \in AssignSlots : ~InProgress(ia[q]))

\* The invocation up to its transaction: the articles of the date are
\* fetched; too few of them end it with a failure, no cluster of the minimum
\* size ends it with no topic saved; else the clusters are ranked, cut to
\* the top n, given their titles and persisted.
Invoke(r, d, P, n, m, titled, main, retries, err) ==
    LET arts == ArticlesOf(d)
        valid == {c \in P : Cardinality(c) >= m}
        over(st) == /\ bc' = [bc EXCEPT ![r] =
                                [IdleCluster EXCEPT !.st = st, !.date = d,
                                                    !.minimum = m, !.topn = n,
                                                    !.main = main]]
                    /\ UNCHANGED <<ia, last, clean>>
    IN IF ~EnoughArticles(arts, m) THEN over("refused")
       ELSE IF valid = {} THEN over("done")
       ELSE StartPersistence(r, d, m, n, TopN(Ranked(valid), n), titled, main,
                             retries, err)

\* cluster_daily_topics / bertopic_clustering_task is invoked for date d
BCBegin(r, d, P, n, m, titled) ==
    /\ begun < MaxRuns
    /\ bc[r].st \in {"idle", "done", "refused"}
    /\ \A q \in ClusterSlots : q < r => bc[q].st \notin {"idle", "done", "refused"}
    /\ P \in ClusteringsOf(d)
    /\ Invoke(r, d, P, n, m, titled, "closest", 0, "none")
    /\ begun' = begun + 1
    /\ UNCHANGED <<topics, mappings, pending, topic_id_seq, now, current, coordVars, fnVars>>

\* bertopic_clustering_task is invoked for date d: the topics, their ranks,
\* titles and article lists come from the clustering service (P, order);
\* no article -> a failure without writes
BertopicClusteringTask(r, d, P, order) ==
    /\ begun < MaxRuns
    /\ bc[r].st \in {"idle", "done", "refused"}
    /\ P \in ClusteringsOf(d)
    /\ Invoke(r, d, P, n_topics, min_articles_per_topic, AllTitled, order, 0, "none")
    /\ begun' = begun + 1
    /\ UNCHANGED <<topics, mappings, pending, topic_id_seq, now, current, coordVars, fnVars>>

\* tasks.py 449-452: self.retry runs the whole task again
BCRetry(r, P, n, m, titled) ==
    /\ bc[r].st = "failed"
    /\ bc[r].retries < bertopic_max_retries
    /\ begun < MaxRuns
    /\ P \in ClusteringsOf(bc[r].date)
    /\ Invoke(r, bc[r].date, P, n, m, titled, bc[r].main, bc[r].retries + 1,
              bc[r].err)
    /\ begun' = begun + 1
    /\ UNCHANGED <<topics, mappings, pending, topic_id_seq, now, current, coordVars, fnVars>>

\* scripts/run_clustering.py with algorithm 'dbscan':
\* TopicClusterer(n, m).cluster_daily_topics(d, algorithm='dbscan'), run from
\* the command line, again after a run that failed
ClusterDailyTopicsDbscan(r, d, n, m, titled) ==
    /\ begun < MaxRuns
    /\ ~InTxn(bc[r])
    /\ Invoke(r, d, LabelGroups(ArticlesOf(d), m), n, m, titled, "closest", 0,
              "none")
    /\ begun' = begun + 1
    /\ UNCHANGED <<topics, mappings, pending, topic_id_seq, now, current, coordVars, fnVars>>

\* The lock is released: the DELETE goes on over the rows of its snapshot
\* that still exist.
BCDeleteResume(r) ==
    /\ bc[r].st = "blocked"
    /\ (bc[r].snap \cap TopicIds) \cap LockedByOthers(r) = {}
    /\ bc' = [bc EXCEPT ![r].st = "insert", ![r].del = bc[r].snap \cap TopicIds,
                        ![r].snap = {}]
    /\ UNCHANGED <<topics, mappings, pending, topic_id_seq, now, ia, begun, last,
                   clean, current, coordVars, fnVars>>

\* One round of the insert loop: the topic of the next cluster, with its rank
\* and centroid, and the mappings of its articles. A uniqueness conflict with a
\* row of an open transaction waits for that transaction; a conflict with a
\* committed row raises, and get_db_connection rolls back.
BCInsert(r) ==
    /\ bc[r].st = "insert"
    /\ Len(bc[r].ids) < Len(bc[r].plan)
    /\ LET i == Len(bc[r].ids) + 1
           others == {q \in ClusterSlots : q # r /\ InTxn(bc[q])}
           trow == [id |-> topic_id_seq, date |-> bc[r].date, rank |-> i]
           mrows == {[topic |-> topic_id_seq, article |-> a, date |-> bc[r].date]
                     : a \in bc[r].plan[i]}
           ct == {t \in topics : t.id \notin bc[r].del
                                 /\ InsertTopicOutcome({t}, trow) = "unique"}
           cm == {m \in mappings : m.topic \notin bc[r].del
                     /\ \E row \in mrows :
                           InsertMappingOutcome({m}, {row.topic}, row) = "unique"}
           ut == {t \in UNION {NewTopicsOf(q) : q \in others} :
                     InsertTopicOutcome({t}, trow) = "unique"}
           um == {m \in UNION {NewMappingsOf(q) : q \in others} :
                     \E row \in mrows :
                        InsertMappingOutcome({m}, {row.topic}, row) = "unique"}
       IN /\ ut = {} /\ um = {}
          /\ \A t \in ct : t.id \notin LockedByOthers(r)
          /\ \A m \in cm : m.topic \notin LockedByOthers(r)
          /\ IF ct = {} /\ cm = {}
             THEN /\ bc' = [bc EXCEPT ![r].ids = Append(@, topic_id_seq)]
                  /\ UNCHANGED <<topics, mappings>>
             ELSE /\ bc' = [bc EXCEPT ![r] = Closed(r, "failed", "unique")]
                  /\ topics' = Rollback(topics, GoneTopicsOf(r), NewTopicsOf(r))
                  /\ mappings' = Rollback(mappings, GoneMappingsOf(r), NewMappingsOf(r))
    /\ topic_id_seq' = topic_id_seq + 1
    /\ UNCHANGED <<pending, now, ia, begun, last, clean, current, coordVars, fnVars>>

\* conn.commit()
BCCommit(r) ==
    /\ bc[r].st = "insert"
    /\ Len(bc[r].ids) = Len(bc[r].plan)
    /\ topics' = Commit(topics, GoneTopicsOf(r), NewTopicsOf(r))
    /\ mappings' = Commit(mappings, GoneMappingsOf(r), NewMappingsOf(r))
    /\ current' = [ids |-> bc[r].ids, plan |-> bc[r].plan]
    /\ bc' = [bc EXCEPT ![r] = Closed(r, "done", bc[r].err)]
    /\ UNCHANGED <<pending, topic_id_seq, now, ia, begun, last, clean, coordVars, fnVars>>

\* A statement of the transaction raises (connection lost, server error):
\* get_db_connection rolls back and the exception leaves the run.
BCFail(r) ==
    /\ InTxn(bc[r])
    /\ begun < MaxRuns
    /\ begun' = begun + 1
    /\ topics' = Rollback(topics, GoneTopicsOf(r), NewTopicsOf(r))
    /\ mappings' = Rollback(mappings, GoneMappingsOf(r), NewMappingsOf(r))
    /\ bc' = [bc EXCEPT ![r] = Closed(r, "failed", "fault")]
    /\ UNCHANGED <<pending, topic_id_seq, now, ia, last, clean, current, coordVars, fnVars>>

(***************************************************************************)
(* IncrementalAssigner.run_incremental_assignment (lines 304-413). Each    *)
(* assign_article_to_topic, add_to_pending and update_topic_centroids call *)
(* runs in a transaction of its own.                                       *)
(***************************************************************************)
RECURSIVE BestOver(_, _, _, _)
BestOver(e, ts, bestId, bestSim) ==
    IF ts = <<>> THEN <<bestId, bestSim>>
    ELSE LET s == calculate_cosine_similarity(e, Head(ts).centroid)
         IN IF SimGreater(s, bestSim)
            THEN BestOver(e, Tail(ts), Head(ts).id, s)
            ELSE BestOver(e, Tail(ts), bestId, bestSim)

\* find_best_topic: <<topic_id or None, best similarity>>
find_best_topic_at(e, ts, thr) ==
    LET b == BestOver(e, ts, NoTopic, ZeroSim)
    IN IF SimAtLeast(b[2], thr) THEN b ELSE <<NoTopic, b[2]>>

\* with self.similarity_threshold at its default
find_best_topic(e, ts) == find_best_topic_at(e, ts, similarity_threshold)

\* add_to_pending: INSERT ... ON CONFLICT (article_id) DO UPDATE SET reason,
\* max_similarity, added_at = NOW()
AddToPendingPlainInsert(P, a, reason, sim, t) ==
    P \cup {[article |-> a, reason |-> reason, sim |-> sim, at |-> t]}
AddToPendingDoNothing(P, a, reason, sim, t) ==
    IF \E p \in P : p.article = a THEN P
    ELSE P \cup {[article |-> a, reason |-> reason, sim |-> sim, at |-> t]}
add_to_pending(P, a, reason, sim, t) ==
    {p \in P : p.article # a}
    \cup {[article |-> a, reason |-> reason, sim |-> sim, at |-> t]}

\* the rows of get_new_articles: the embedded articles published at or
\* after cutoff_time = now - since_minutes (c) without any mapping
NewArticles(c) ==
    {a \in Articles : published_at(a) >= c /\ \A m \in mappings : m.article # a}

\* Step 1 with new_articles = cands; none -> success at once.
Fetch(r, d, c, cands) ==
    /\ begun < MaxRuns
    /\ ia[r].st \in {"idle", "done", "failed"}
    /\ \A q \in AssignSlots : q < r => InProgress(ia[q])
    /\ LET solo == ~OthersActive(r)
       IN /\ ia' = [Disturb(ia) EXCEPT ![r] =
                      [IdleAssign EXCEPT !.st = IF cands = <<>> THEN "done" ELSE "fetched",
                                         !.date = d, !.cutoff = c,
                                         !.cands = cands, !.alone = solo,
                                         !.second = solo /\ last.ok,
                                         !.prevAssigned = last.assigned]]
          /\ last' = [ok |-> cands = <<>> /\ solo, assigned |-> 0]
          /\ clean' = (clean /\ solo)
    /\ begun' = begun + 1
    /\ now' = now + 1
    /\ UNCHANGED <<topics, mappings, pending, topic_id_seq, bc, current, coordVars, fnVars>>

\* Step 1, get_new_articles: ORDER BY a.published_at DESC
IAFetch(r, d, c) == Fetch(r, d, c, NewestFirst(NewArticles(c)))

\* Step 1 with the rows of get_new_articles in the order seq, any other
\* order of the same candidates
Orders(S) ==
    {seq \in [1..Cardinality(S) -> S] : \A i, j \in 1..Cardinality(S) :
                                             seq[i] = seq[j] => i = j}
AllOrders == UNION {Orders(S) : S \in SUBSET Articles}
IAFetchInOrder(r, d, c, seq) ==
    /\ seq \in Orders(NewArticles(c))
    /\ Fetch(r, d, c, seq)

\* The loop of step 3 passes the list read in step 2 to every call of
\* find_best_topic; no round changes a centroid of it.
ActiveTopicsRecomputed(snap, M) ==
    [i \in 1..Len(snap) |->
        [id |-> snap[i].id,
         centroid |-> IF MembersIn(M, snap[i].id) = {} THEN snap[i].centroid
                      ELSE Centroid(MembersIn(M, snap[i].id))]]
ActiveTopicsInLoop(snap, M) == snap

\* `with get_db_connection() as conn:` of assign_article_to_topic and of
\* add_to_pending: the call's statements are committed when the call
\* returns. before and after are a table before and after the statements.
SharedTransaction(before, after) == before
OwnTransaction(before, after) == after

\* `if not active_topics:` of run_incremental_assignment
NoActiveTopicsNever(ts) == FALSE
NoActiveTopics(ts) == ts = <<>>

\* Step 2, get_active_topics: the date's topics with a centroid, by rank
IALoadTopics(r) ==
    /\ ia[r].st = "fetched"
    /\ LET ts == ByRank({t \in topics : t.date = ia[r].date})
       IN ia' = [ia EXCEPT ![r].snap = [i \in 1..Len(ts) |->
                                          [id |-> ts[i].id, centroid |-> ts[i].centroid]],
                           ![r].st = IF NoActiveTopics(ts) THEN "notopics"
                                     ELSE "loop"]
    /\ UNCHANGED <<topics, mappings, pending, topic_id_seq, now, bc, begun, last,
                   clean, current, coordVars, fnVars>>

\* The run returns its result dict.
Finished(r, rec) ==
    /\ ia' = [ia EXCEPT ![r] = [rec EXCEPT !.st = "done", !.snap = <<>>,
                                           !.updated = {}, !.newc = {}]]
    /\ last' = [ok |-> rec.alone, assigned |-> rec.assigned]

\* lines 335-337: no active topics; the next article goes to the pending pool
IANoTopics(r) ==
    /\ ia[r].st = "notopics"
    /\ LET a == Head(ia[r].cands)
           rec == [ia[r] EXCEPT !.cands = Tail(@)]
       IN /\ pending' = OwnTransaction(pending,
                          add_to_pending(pending, a, "no_topics", ZeroSim, now))
          /\ IF rec.cands = <<>>
             THEN Finished(r, rec)
             ELSE ia' = [ia EXCEPT ![r] = rec] /\ last' = last
    /\ UNCHANGED <<topics, mappings, topic_id_seq, now, bc, begun, clean, current,
                   coordVars, fnVars>>

\* Step 3, one round of the loop over new_articles: find_best_topic, then
\* assign_article_to_topic or add_to_pending. The INSERT waits for a topic row
\* locked by a DELETE and for an open transaction holding a mapping of the
\* same article and date; an exception of the INSERT ends the run.
IAAssign(r) ==
    /\ ia[r].st = "loop"
    /\ LET a == Head(ia[r].cands)
           best == find_best_topic(Embedding(a), ia[r].snap)
           row == [topic |-> best[1], article |-> a, date |-> ia[r].date,
                   sim |-> best[2]]
           out == InsertMappingOutcome(mappings, TopicIds, row)
           rec == [ia[r] EXCEPT !.cands = Tail(@)]
           got == [rec EXCEPT !.updated = @ \cup {best[1]}, !.assigned = @ + 1,
                              !.snap = ActiveTopicsInLoop(@, mappings \cup {row})]
       IN IF best[1] = NoTopic
          THEN /\ pending' = OwnTransaction(pending,
                               add_to_pending(pending, a, "low_similarity", best[2], now))
               /\ mappings' = mappings
               /\ topics' = topics
               /\ IF rec.cands # <<>> THEN ia' = [ia EXCEPT ![r] = rec] /\ last' = last
                  ELSE IF rec.updated # {}
                       THEN ia' = [ia EXCEPT ![r] = [rec EXCEPT !.st = "recompute"]]
                            /\ last' = last
                       ELSE Finished(r, rec)
               /\ clean' = clean
          ELSE /\ best[1] \notin LockedByOthers(0)
               /\ out = "noop" \/ \A q \in ClusterSlots :
                     InTxn(bc[q]) =>
                        \A m \in NewMappingsOf(q) :
                           InsertMappingOutcome({m}, {row.topic}, row) # "unique"
               /\ pending' = pending
               /\ IF out \in {"ok", "noop"}
                  THEN /\ mappings' = IF out = "ok"
                                       THEN OwnTransaction(mappings, mappings \cup {row})
                                       ELSE mappings
                       /\ topics' = IF out = "ok"
                                     THEN OwnTransaction(topics,
                                                         CountInsert(topics, row.topic))
                                     ELSE topics
                       /\ ia' = [ia EXCEPT ![r] =
                                   [got EXCEPT !.st = IF got.cands # <<>> THEN "loop"
                                                      ELSE "recompute"]]
                       /\ last' = last
                       /\ clean' = clean
                  ELSE /\ mappings' = mappings
                       /\ topics' = topics
                       /\ ia' = [ia EXCEPT ![r].st = "failed", ![r].err = out]
                       /\ last' = [ok |-> FALSE, assigned |-> 0]
                       /\ clean' = (clean /\ ia[r].updated = {})
    /\ UNCHANGED <<topic_id_seq, now, bc, begun, current, coordVars, fnVars>>

\* Step 4, update_topic_centroids: per updated topic, SELECT the embeddings of
\* its members ...
IARecomputeRead(r) ==
    /\ ia[r].st = "recompute"
    /\ ia' = [ia EXCEPT ![r].st = "write",
                        ![r].newc = {[id |-> tid, centroid |-> Centroid(Members(tid))]
                                     : tid \in {x \in ia[r].updated : Members(x) # {}}}]
    /\ UNCHANGED <<topics, mappings, pending, topic_id_seq, now, bc, begun, last,
                   clean, current, coordVars, fnVars>>

\* ... and UPDATE topic SET centroid_embedding; the run then returns.
IARecomputeWrite(r) ==
    /\ ia[r].st = "write"
    /\ \A n \in ia[r].newc : n.id \notin LockedByOthers(0)
    /\ topics' = {IF \E n \in ia[r].newc : n.id = t.id
                  THEN [t EXCEPT !.centroid =
                           (CHOOSE n \in ia[r].newc : n.id = t.id).centroid]
                  ELSE t : t \in topics}
    /\ Finished(r, ia[r])
    /\ UNCHANGED <<mappings, pending, topic_id_seq, now, bc, begun, clean, current,
                   coordVars, fnVars>>

\* A statement of the run raises (connection lost, server error): nothing
\* catches it inside run_incremental_assignment.
IAFail(r) ==
    /\ ia[r].st \in {"loop", "notopics", "recompute", "write"}
    /\ begun < MaxRuns
    /\ begun' = begun + 1
    /\ ia' = [ia EXCEPT ![r].st = "failed", ![r].err = "fault"]
    /\ last' = [ok |-> FALSE, assigned |-> 0]
    /\ clean' = (clean /\ ia[r].updated = {})
    /\ UNCHANGED <<topics, mappings, pending, topic_id_seq, now, bc, current,
                   coordVars, fnVars>>

NextDB ==
    \/ \E r \in ClusterSlots, d \in Dates, P \in Clusterings :
          BCBegin(r, d, P, n_topics, min_articles_per_topic, AllTitled)
    \/ \E r \in ClusterSlots, P \in Clusterings :
          BCRetry(r, P, n_topics, min_articles_per_topic, AllTitled)
    \/ \E r \in ClusterSlots : BCDeleteResume(r)
    \/ \E r \in ClusterSlots : BCInsert(r)
    \/ \E r \in ClusterSlots : BCCommit(r)
    \/ \E r \in ClusterSlots : BCFail(r)
    \/ \E r \in AssignSlots, d \in Dates : IAFetch(r, d, Recent)
    \/ \E r \in AssignSlots : IALoadTopics(r)
    \/ \E r \in AssignSlots : IANoTopics(r)
    \/ \E r \in AssignSlots : IAAssign(r)
    \/ \E r \in AssignSlots : IARecomputeRead(r)
    \/ \E r \in AssignSlots : IARecomputeWrite(r)
    \/ \E r \in AssignSlots : IAFail(r)

SpecDB == Init /\ [][NextDB]_vars

\* One BatchClusterer invocation at a time, over all dates, with every value
\* followed of n_topics and min_articles_per_topic and every outcome of the
\* title generation.
First == 1
NextBatch ==
    \/ \E d \in TopicDates, P \in AllClusterings,
          n \in TopNs, m \in Minimums, titled \in TitleOutcomes :
          BCBegin(First, d, P, n, m, titled)
    \/ \E P \in AllClusterings,
          n \in TopNs, m \in Minimums, titled \in TitleOutcomes :
          BCRetry(First, P, n, m, titled)
    \/ BCInsert(First)
    \/ BCCommit(First)
    \/ BCFail(First)

\* Overlapping BatchClusterer invocations for the date followed, with every
\* value followed of n_topics.
NextOverlap ==
    \/ \E r \in ClusterSlots, d \in Dates, P \in Clusterings, n \in TopNs :
          BCBegin(r, d, P, n, min_articles_per_topic, AllTitled)
    \/ \E r \in ClusterSlots, P \in Clusterings, n \in TopNs :
          BCRetry(r, P, n, min_articles_per_topic, AllTitled)
    \/ \E r \in ClusterSlots : BCDeleteResume(r)
    \/ \E r \in ClusterSlots : BCInsert(r)
    \/ \E r \in ClusterSlots : BCCommit(r)
    \/ \E r \in ClusterSlots : BCFail(r)

SpecOverlap == Init /\ [][NextOverlap]_vars

SpecBatch == Init /\ [][NextBatch]_vars

\* One BatchClusterer invocation and one IncrementalAssigner run at a time,
\* over the dates that have articles and all cutoff times.
NextDates ==
    \/ \E d \in ArticleDates, P \in AllClusterings :
          BCBegin(First, d, P, n_topics, min_articles_per_topic, AllTitled)
    \/ \E P \in AllClusterings :
          BCRetry(First, P, n_topics, min_articles_per_topic, AllTitled)
    \/ BCInsert(First)
    \/ BCCommit(First)
    \/ BCFail(First)
    \/ \E d \in ArticleDates, c \in Cutoffs : IAFetch(First, d, c)
    \/ IALoadTopics(First)
    \/ IANoTopics(First)
    \/ IAAssign(First)
    \/ IARecomputeRead(First)
    \/ IARecomputeWrite(First)
    \/ IAFail(First)

SpecDates == Init /\ [][NextDates]_vars

\* BatchClusterer with the density-based algorithm, one invocation at a
\* time, over all dates and the values followed of min_articles_per_topic.
NextDensity ==
    \/ \E d \in TopicDates, n \in TopNs, m \in DensityMinimums :
          ClusterDailyTopicsDbscan(First, d, n, m, AllTitled)
    \/ BCInsert(First)
    \/ BCCommit(First)
    \/ BCFail(First)

SpecDensity == Init /\ [][NextDensity]_vars

\* bertopic_clustering_task and TopicClusterer.cluster_daily_topics, one
\* invocation at a time, over all dates and both orders of the service's
\* article lists.
NextTask ==
    \/ \E d \in TopicDates, P \in AllClusterings, order \in ServiceOrders :
          BertopicClusteringTask(First, d, P, order)
    \/ \E d \in TopicDates, P \in AllClusterings :
          BCBegin(First, d, P, n_topics, min_articles_per_topic, AllTitled)
    \/ \E P \in AllClusterings :
          BCRetry(First, P, n_topics, min_articles_per_topic, AllTitled)
    \/ BCInsert(First)
    \/ BCCommit(First)
    \/ BCFail(First)

SpecTask == Init /\ [][NextTask]_vars

\* One IncrementalAssigner run and one BatchClusterer invocation at a time
\* for the date followed, the candidates of the run in any order.
NextOrder ==
    \/ \E d \in Dates, P \in Clusterings :
          BCBegin(First, d, P, n_topics, min_articles_per_topic, AllTitled)
    \/ \E P \in Clusterings :
          BCRetry(First, P, n_topics, min_articles_per_topic, AllTitled)
    \/ BCInsert(First)
    \/ BCCommit(First)
    \/ BCFail(First)
    \/ \E d \in Dates, seq \in AllOrders : IAFetchInOrder(First, d, Recent, seq)
    \/ IALoadTopics(First)
    \/ IANoTopics(First)
    \/ IAAssign(First)
    \/ IARecomputeRead(First)
    \/ IARecomputeWrite(First)
    \/ IAFail(First)

SpecOrder == Init /\ [][NextOrder]_vars

SpecCoord == Init /\ [][NextCoord]_vars

(***************************************************************************)
(* Part III  find_best_topic and the branch of the assignment loop taken   *)
(*           on its result, on embeddings, centroids and thresholds other  *)
(*           than those of the articles followed in Part II.               *)
(***************************************************************************)
NoThreshold == <<-1, 1>>            \* similarity_threshold=None
ProbeThresholds == {<<0, 1>>, <<1, 2>>, <<1, 1>>}
ProbeVectors == {<<1, 0, 0>>, <<-1, 0, 0>>, <<0, 1, 0>>, <<1, 1, 0>>, <<0, 1, 1>>}

\* active_topics: one or two topics in rank order
ProbeTopics ==
    {<<[id |-> 1, centroid |-> c]>> : c \in ProbeVectors}
    \cup {<<[id |-> 1, centroid |-> c], [id |-> 2, centroid |-> d]>> :
            c \in ProbeVectors, d \in ProbeVectors}

\* IncrementalAssigner.__init__: similarity_threshold or float(os.environ.get(
\* 'INCREMENTAL_SIMILARITY_THRESHOLD', '0.5')); None and 0.0 are both falsy
ThresholdOf(arg, env) ==
    IF arg # NoThreshold /\ arg # ZeroSim THEN arg ELSE env

\* One round of the loop of step 3 on an article of embedding e:
\* find_best_topic, then `if best_topic_id:` chooses between
\* assign_article_to_topic and add_to_pending('low_similarity', best_similarity)
AssignOrPend(e, ts, arg, env) ==
    LET thr == ThresholdOf(arg, env)
        best == find_best_topic_at(e, ts, thr)
    IN /\ ~probe.called
       /\ probe' = [called |-> TRUE, e |-> e, ts |-> ts, arg |-> arg,
                    thr |-> thr,
                    branch |-> IF best[1] # NoTopic THEN "assign" ELSE "pending",
                    topic |-> best[1], sim |-> best[2]]
       /\ UNCHANGED <<coordVars, dbVars, clustered>>

NextBest ==
    \E e \in ProbeVectors, ts \in ProbeTopics,
       arg \in ProbeThresholds \cup {NoThreshold}, env \in ProbeThresholds :
        AssignOrPend(e, ts, arg, env)

SpecBest == Init /\ [][NextBest]_vars

(***************************************************************************)
(* Part IV  cluster_articles with algorithm 'hierarchical' (clustering.py  *)
(*          129-177): AgglomerativeClustering with average linkage over    *)
(*          cosine distances, first by distance_threshold, then with the   *)
(*          number of clusters forced into [min_clusters, max_clusters].   *)
(*          Distances are in thousandths.                                  *)
(***************************************************************************)
distance_threshold == 500    \* CLUSTERING_DISTANCE_THRESHOLD, '0.5'
min_clusters == 5            \* CLUSTERING_MIN_TOPICS, '5'
max_clusters == 10           \* CLUSTERING_MAX_TOPICS, '10'

\* values of the three environment variables followed
DistanceThresholds == {distance_threshold, 100, 700}
Bands == {<<min_clusters, max_clusters>>, <<1, 1>>, <<2, 2>>, <<3, 3>>,
          <<1, 3>>, <<2, 4>>}

\* the lists of articles passed to cluster_articles
ArticleLists == (SUBSET Articles) \ {{}}

RECURSIVE SqrtBetween(_, _, _)
SqrtBetween(n, lo, hi) ==
    IF lo = hi THEN lo
    ELSE LET mid == (lo + hi + 1) \div 2
         IN IF mid * mid <= n THEN SqrtBetween(n, mid, hi)
            ELSE SqrtBetween(n, lo, mid - 1)
ISqrt(n) == SqrtBetween(n, 0, IF n < 40000 THEN n ELSE 40000)

\* metric='cosine': 1 - u.v / (|u| |v|)
CosineDistance(a, b) ==
    LET u == Embedding(a)
        v == Embedding(b)
    IN 1000 - (1000000 * Dot(u, v)) \div ISqrt(1000000 * Dot(u, u) * Dot(v, v))

RECURSIVE SumDistances(_, _)
SumDistances(A, B) ==
    IF A = {} THEN 0
    ELSE LET a == CHOOSE x \in A : TRUE
             RECURSIVE Row(_)
             Row(Y) == IF Y = {} THEN 0
                       ELSE LET b == CHOOSE y \in Y : TRUE
                            IN CosineDistance(a, b) + Row(Y \ {b})
         IN Row(B) + SumDistances(A \ {a}, B)

\* linkage='average': pair <<A, B>> is closer than pair <<C, D>>
PairsOf(G) == {p \in G \X G : p[1] # p[2]}
NotFarther(p, q) ==
    SumDistances(p[1], p[2]) * Cardinality(q[1]) * Cardinality(q[2])
       <= SumDistances(q[1], q[2]) * Cardinality(p[1]) * Cardinality(p[2])
Closest(G) == CHOOSE p \in PairsOf(G) : \A q \in PairsOf(G) : NotFarther(p, q)
Merged(G) == (G \ {Closest(G)[1], Closest(G)[2]})
                \cup {Closest(G)[1] \cup Closest(G)[2]}

\* AgglomerativeClustering(n_clusters=None, distance_threshold=thr): clusters
\* are merged while the closest pair is nearer than thr
RECURSIVE MergeBelow(_, _)
MergeBelow(G, thr) ==
    IF Cardinality(G) < 2 THEN G
    ELSE LET p == Closest(G)
         IN IF SumDistances(p[1], p[2]) < thr * Cardinality(p[1]) * Cardinality(p[2])
            THEN MergeBelow(Merged(G), thr)
            ELSE G

\* AgglomerativeClustering(n_clusters=k): clusters are merged down to k
RECURSIVE MergeDownTo(_, _)
MergeDownTo(G, k) ==
    IF Cardinality(G) <= k THEN G ELSE MergeDownTo(Merged(G), k)

Leaves(S) == {{a} : a \in S}

\* fit_predict raises ValueError on fewer than two samples, and on n_clusters
\* above the number of samples
ValueError == [ok |-> FALSE, groups |-> {}]
FitByThreshold(S, thr) ==
    IF Cardinality(S) < 2 THEN ValueError
    ELSE [ok |-> TRUE, groups |-> MergeBelow(Leaves(S), thr)]
FitByCount(S, k) ==
    IF Cardinality(S) < 2 \/ k > Cardinality(S) THEN ValueError
    ELSE [ok |-> TRUE, groups |-> MergeDownTo(Leaves(S), k)]

\* the branch `elif algorithm == 'hierarchical'` of cluster_articles: the
\* labels grouped, or the exception raised
HierarchicalLabels(S, thr, lo, hi) ==
    LET first == FitByThreshold(S, thr)
        n_clusters_found == Cardinality(first.groups)
    IN IF ~first.ok THEN first
       ELSE IF n_clusters_found < lo THEN FitByCount(S, lo)
       ELSE IF n_clusters_found > hi THEN FitByCount(S, hi)
       ELSE first

\* cluster_articles(articles, algorithm='hierarchical') is called
ClusterArticles(S, thr, band) ==
    /\ ~clustered.called
    /\ clustered' = [called |-> TRUE, articles |-> S, thr |-> thr,
                      lo |-> band[1], hi |-> band[2],
                      found |-> FitByThreshold(S, thr),
                      result |-> HierarchicalLabels(S, thr, band[1], band[2])]
    /\ UNCHANGED <<coordVars, dbVars, probe>>

NextHierarchical ==
    \E S \in ArticleLists, thr \in DistanceThresholds, band \in Bands :
        ClusterArticles(S, thr, band)

SpecHierarchical == Init /\ [][NextHierarchical]_vars

(***************************************************************************)
(* Claims about the BatchCompletionCoordinator (checked under SpecCoord).  *)
(***************************************************************************)
Returned(t) == task[t].st \in {"success", "error"}

\* The tasks of the dispatch(es) for date d, and the chain batches whose first
\* article belongs to d.
DispatchedFor(d) == {t \in TaskIds : task[t].st # "free" /\ task[t].target = d}
ChainFor(d) == {t \in TaskIds : task[t].st # "free" /\ task[t].target = NoDate
                                 /\ task[t].first = d}

\* Exactly one dispatch initialised the counters of d and no other batch
\* touches them.
SingleDispatch(d) ==
    /\ gen[d] = 1
    /\ disp.runs = 1
    /\ ChainFor(d) = {}

\* ... and its batches are enqueued and each ran its whole completion step.
SingleDispatchDone(d) ==
    /\ SingleDispatch(d)
    /\ disp.pc = "idle"
    /\ \A t \in DispatchedFor(d) :
          task[t].st = "success" /\ task[t].bumped /\ ~task[t].rerr

\* C1: one dispatch of N batches for a date, each batch running its completion
\* step, in any interleaving of the single Redis calls: never more than one
\* BatchClusterer invocation is scheduled, exactly one has been scheduled once
\* all N have finished, and then neither counter key of the date exists.
C1_ExactlyOneTrigger ==
    \A d \in Dates :
        /\ SingleDispatch(d) => scheduled[d] <= 1
        /\ SingleDispatchDone(d) =>
              scheduled[d] = 1 /\ completed[d] = Nil /\ total[d] = Nil

C1_Witness ==
    /\ SingleDispatchDone(1)
    /\ Cardinality(DispatchedFor(1)) = 2
    /\ scheduled[1] = 1

\* C5: every batch dispatched for a date that has returned (with every article
\* succeeded, or with some or all of them failed) has incremented
\* completed[D], and once all batches of the one dispatch have returned a
\* BatchClusterer invocation has been scheduled.
C5_EveryBatchReports ==
    \A d \in Dates :
        /\ \A t \in DispatchedFor(d) :
              (Returned(t) /\ ~task[t].rerr) => task[t].bumped
        /\ ( /\ SingleDispatch(d) /\ disp.pc = "idle"
             /\ \A t \in DispatchedFor(d) : Returned(t) /\ ~task[t].rerr )
           => scheduled[d] >= 1

\* C9 as stated: an increment made while total[D] does not exist creates or
\* changes no counter.
C9_IncrementIsNoOp ==
    [][\A t \in TaskIds :
          ( /\ task[t].st = "incr"
            /\ task'[t].st = "get"
            /\ total[NewsDateStr(t)] = Nil )
          => completed' = completed]_vars

\* C9 as amended: the increment always raises completed[D] by one (creating it
\* with value 1 when it is absent) and leaves total[D] alone; when the batch
\* then reads total[D] and finds it missing, it schedules nothing, creates and
\* deletes no key, and returns its normal result.
C9_MissingTotalSkipsTrigger ==
    [][\A t \in TaskIds :
          LET d == NewsDateStr(t) IN
          /\ (task[t].st = "incr" /\ task'[t].st = "get")
             => /\ completed'[d] = RedisIncr(completed[d])
                /\ total' = total
                /\ scheduled' = scheduled
          /\ (task[t].st = "get" /\ task'[t].st # "get" /\ total[d] = Nil)
             => /\ task'[t].st = "success"
                /\ completed' = completed
                /\ total' = total
                /\ scheduled' = scheduled]_vars

\* A batch incremented while total[1] never existed, and returned normally.
C9_Witness ==
    /\ gen[1] = 0
    /\ disp.runs = 0
    /\ total[1] = Nil
    /\ completed[1] = 1
    /\ scheduled[1] = 0
    /\ \E t \in TaskIds : task[t].st = "success" /\ task[t].bumped /\ ~task[t].rerr

\* C10: while both counters of a date exist, completed[D] <= total[D].
C10_CompletedLeTotal ==
    \A d \in Dates :
        (completed[d] # Nil /\ total[d] # Nil) => completed[d] <= total[d]


(***************************************************************************)
(* Claims about the topic store (checked under SpecDB).                    *)
(***************************************************************************)
\* C2: after any sequence of BatchClusterer and IncrementalAssigner runs,
\* overlapping ones included, no article has mappings to two different topics
\* with the same date.
C2_OneTopicPerArticleAndDate ==
    \A m1 \in mappings, m2 \in mappings :
        (m1.article = m2.article /\ m1.date = m2.date) => m1.topic = m2.topic

\* An IncrementalAssigner insert was refused by uq_article_topic_date: its
\* article had been mapped to another topic in the meantime.
C2_Witness ==
    \E r \in AssignSlots :
        /\ ia[r].st = "failed"
        /\ ia[r].err = "unique"
        /\ \E m \in mappings : m.article = Head(ia[r].cands) /\ m.date = ia[r].date

\* C3: BatchClusterer's persistence is atomic. Every step of an invocation
\* leaves the committed topics and mappings as they are, a failure after the
\* DELETE or in the middle of the inserts included, except its commit, which
\* leaves for the date exactly the complete new set.
C3_PersistenceAtomic ==
    [][\A r \in ClusterSlots :
          bc'[r] # bc[r] =>
             \/ topics' = topics /\ mappings' = mappings
             \/ /\ bc[r].st = "insert"
                /\ bc'[r].st = "done"
                /\ Len(bc[r].ids) = Len(bc[r].plan)
                /\ {t \in topics' : t.date = bc[r].date} = NewTopicsOf(r)
                /\ {m \in mappings' : m.date = bc[r].date} = NewMappingsOf(r)]_vars

\* An invocation failed after its DELETE of an existing set and after the
\* insert of a topic; the set that existed is all there.
C3_Witness ==
    /\ \E r \in ClusterSlots : bc[r].st = "failed" /\ bc[r].partial
    /\ topics # {}
    /\ TopicIds = Range(current.ids)
    /\ \A i \in 1..Len(current.ids) : current.plan[i] \subseteq Members(current.ids[i])

\* The run of r takes a step of its own.
RunStep(r) ==
    /\ InProgress(ia[r])
    /\ ia'[r].cands # ia[r].cands \/ ia'[r].st # ia[r].st

\* C4: when an IncrementalAssigner run inserts a mapping for an article that
\* is already mapped for that date, to the same or to another topic, the
\* insert is a no-op: the mappings are unchanged, no error is raised and the
\* run goes on.
C4_DuplicateInsertIsNoOp ==
    [][\A r \in AssignSlots :
          ( /\ ia[r].st = "loop"
            /\ RunStep(r)
            /\ ia'[r].err # "fault"
            /\ find_best_topic(Embedding(Head(ia[r].cands)), ia[r].snap)[1] # NoTopic
            /\ \E m \in mappings : m.article = Head(ia[r].cands)
                                   /\ m.date = ia[r].date )
          => mappings' = mappings /\ ia'[r].st # "failed"]_vars

\* A step of a run that began right after another run had run alone and
\* returned, with nothing else in between, and that runs alone.
SecondRunStep(r) == ia[r].second /\ ia[r].alone /\ RunStep(r)

Fresh(t) == t.centroid = normalize_vector(VSum(Members(t.id)))
AllFresh == \A t \in topics : Fresh(t)

RunCompletes ==
    \/ \E r \in ClusterSlots : bc[r].st # "done" /\ bc'[r].st = "done"
    \/ \E r \in AssignSlots : ia[r].st # "done" /\ ia'[r].st = "done"

Quiescent ==
    /\ \A r \in ClusterSlots : ~InTxn(bc[r])
    /\ \A r \in AssignSlots : ~InProgress(ia[r])

C8_OneCompleteTopicSet ==
    /\ TopicIds = Range(current.ids)
    /\ Cardinality(topics) = Len(current.ids)
    /\ \A m \in mappings : m.topic \in Range(current.ids)
    /\ \A i \in 1..Len(current.ids) :
          /\ current.plan[i] \subseteq Members(current.ids[i])
          /\ \E t \in topics : t.id = current.ids[i] /\ t.rank = i

\* An invocation that overlapped another one was refused by a uniqueness
\* constraint, was retried and committed.
C8_Witness ==
    /\ \E r \in ClusterSlots : bc[r].st = "done" /\ bc[r].err = "unique"
    /\ topics # {}

(***************************************************************************)
(* Claims about find_best_topic (checked under SpecBest).                  *)
(***************************************************************************)
\* The largest similarity of e to a centroid of ts, computed apart from
\* find_best_topic.
SimsOf(e, ts) == {calculate_cosine_similarity(e, ts[i].centroid) : i \in 1..Len(ts)}
MaxSim(e, ts) == CHOOSE s \in SimsOf(e, ts) : \A x \in SimsOf(e, ts) : ~SimGreater(x, s)
ArgMax(e, ts) ==
    {ts[i].id : i \in {j \in 1..Len(ts) :
        calculate_cosine_similarity(e, ts[j].centroid) = MaxSim(e, ts)}}
ReachesThreshold(s, thr) == s[1] * thr[2] * thr[2] >= thr[1] * thr[1] * s[2]

\* C11: for every candidate article, every non-empty set of active topics
\* and every configured threshold, the article is assigned to a topic of
\* maximum similarity exactly when that maximum is at least the threshold
\* (a maximum equal to the threshold assigns); a maximum strictly below the
\* threshold sends the article to the PendingPool with that maximum recorded.
C11_AssignedIffMaxReachesThreshold ==
    probe.called =>
        LET m == MaxSim(probe.e, probe.ts)
        IN IF ReachesThreshold(m, probe.thr)
           THEN probe.branch = "assign" /\ probe.topic \in ArgMax(probe.e, probe.ts)
           ELSE probe.branch = "pending" /\ probe.sim = m

(***************************************************************************)
(* Claims about BatchClusterer alone (checked under SpecBatch).            *)
(***************************************************************************)
\* cluster_daily_topics is invoked in slot r (a first call or a retry)
InvokeStep(r) == ~InTxn(bc[r]) /\ bc'[r] # bc[r]

C14_UntitledTopicsTakeArticleTitle ==
    [][\A r \in ClusterSlots :
          (bc[r].st = "insert" /\ bc'[r].st = "done")
          => LET new == {t \in topics' : t.date = bc[r].date}
             IN /\ Cardinality(new) = Len(bc[r].plan)
                /\ \A i \in 1..Len(bc[r].plan) :
                      \E t \in new :
                         /\ t.rank = i
                         /\ MembersIn(mappings', t.id) = bc[r].plan[i]
                         /\ t.title.generated = (i \in bc[r].titled)
                         /\ ~t.title.generated =>
                               /\ t.title.article \in bc[r].plan[i]
                               /\ \A b \in bc[r].plan[i] :
                                     ~SimGreater(
                                        calculate_cosine_similarity(Embedding(b), t.centroid),
                                        calculate_cosine_similarity(
                                           Embedding(t.title.article), t.centroid))]_vars

\* The title generation failed for an invocation with two clusters; both
\* topics are committed under titles of articles.
C14_Witness ==
    /\ \E r \in ClusterSlots : bc[r].st = "done"
    /\ \E t \in topics, u \in topics :
          /\ t.date = u.date /\ t.rank = 1 /\ u.rank = 2
          /\ ~t.title.generated /\ ~u.title.generated
          /\ Cardinality(Members(t.id)) = 2

\* C15: a BatchClusterer invocation for a date, whether it succeeds or
\* fails, leaves the topics and the mappings of every other date unchanged.
C15_OtherDatesUntouched ==
    [][\A r \in ClusterSlots :
          bc'[r] # bc[r]
          => LET d == bc'[r].date
             IN /\ {t \in topics' : t.date # d} = {t \in topics : t.date # d}
                /\ {m \in mappings' : m.date # d} = {m \in mappings : m.date # d}]_vars

\* An invocation committed the topic set of its date, and the set of another
\* date, committed before it, is in place with its mapping.
C15_Witness ==
    \E r \in ClusterSlots :
        /\ bc[r].st = "done"
        /\ \E t \in topics, u \in topics :
              /\ t.date = bc[r].date /\ u.date # bc[r].date
              /\ u.id < t.id
              /\ Members(u.id) # {}

\* C20 (checked under SpecOverlap): after any sequence of BatchClusterer
\* invocations, duplicate and overlapping ones included, no two topics of a
\* date share a rank, and the ranks an invocation commits lie in 1..N, N
\* its configured number of top topics.
C20_RanksUniqueWithinTopN ==
    /\ [](\A t \in topics, u \in topics :
             (t.date = u.date /\ t.rank = u.rank) => t = u)
    /\ [][\A r \in ClusterSlots :
             (bc[r].st = "insert" /\ bc'[r].st = "done")
             => \A t \in topics' :
                   t.date = bc[r].date => t.rank \in 1..bc[r].topn]_vars

\* An invocation with N = 1 committed while another invocation was open:
\* of its two clusters only the larger one, {1, 3}, is a topic, at rank 1.
C20_Witness ==
    \E r \in ClusterSlots, q \in ClusterSlots :
        /\ bc[r].st = "done" /\ bc[r].topn = 1
        /\ InTxn(bc[q])
        /\ \E t \in topics : t.rank = 1 /\ Members(t.id) = {1, 3}
        /\ Cardinality(topics) = 1

\* C21 (checked under SpecDensity): an article that density-based clustering
\* labels as an outlier is excluded from all topics: an invocation commits no
\* topic made of the outlier group and no mapping of an outlier article.
C21_OutliersInNoTopic ==
    [][\A r \in ClusterSlots :
          (bc[r].st = "insert" /\ bc'[r].st = "done")
          => LET noise == DbscanNoise(ArticlesOf(bc[r].date), bc[r].minimum)
             IN /\ \A m \in mappings' : m.date = bc[r].date => m.article \notin noise
                /\ \A t \in topics' :
                      t.date = bc[r].date => MembersIn(mappings', t.id) # noise]_vars

\* topic_rank IS NULL
NullRank == 0

\* C22 (checked under SpecDensity): the clusters are ranked by member count
\* in descending order, so rank 1 is a cluster of maximum size; only the top
\* N clusters get a non-null rank, and every smaller cluster is still
\* persisted as a topic, with a null rank and with its members mapped to it.
C22_SmallerClustersKeptUnranked ==
    [][\A r \in ClusterSlots :
          (bc[r].st = "insert" /\ bc'[r].st = "done")
          => LET d == bc[r].date
                 valid == {c \in LabelGroups(ArticlesOf(d), bc[r].minimum) :
                              Cardinality(c) >= bc[r].minimum}
                 new == {t \in topics' : t.date = d}
                 ranked == {t \in new : t.rank # NullRank}
             IN /\ \A t \in new :
                      t.rank = 1 => \A c \in valid :
                         Cardinality(MembersIn(mappings', t.id)) >= Cardinality(c)
                /\ \A t \in ranked : t.rank \in 1..bc[r].topn
                /\ Cardinality(ranked) <= bc[r].topn
                /\ \A c \in valid :
                      \E t \in new : MembersIn(mappings', t.id) = c]_vars

RECURSIVE SumCounts(_)
SumCounts(T) ==
    IF T = {} THEN 0
    ELSE LET t == CHOOSE x \in T : TRUE
         IN t.article_count + SumCounts(T \ {t})

PendStep(r) ==
    /\ ia[r].st \in {"loop", "notopics"}
    /\ RunStep(r)
    /\ ia'[r].st # "failed"
    /\ ia'[r].assigned = ia[r].assigned

FetchStep(r) == ~InProgress(ia[r]) /\ ia'[r] # ia[r]

Unmapped(a) == \A m \in mappings : m.article # a

C23_CandidatesAreUnmappedForDate ==
    [][\A r \in AssignSlots :
          FetchStep(r)
          => Range(ia'[r].cands) =
                {a \in Articles :
                    \A m \in mappings : ~(m.article = a /\ m.date = ia'[r].date)}]_vars

\* C24 (checked under SpecTask): for every topic an invocation persists, the
\* main article is a member of the cluster whose similarity to the cluster
\* centroid is maximal among its members; it is not chosen by position.
C24_MainArticleClosestToCentroid ==
    [][\A r \in ClusterSlots :
          (bc[r].st = "insert" /\ bc'[r].st = "done")
          => \A i \in 1..Len(bc[r].plan) :
                \E t \in topics' :
                   /\ t.id = bc[r].ids[i]
                   /\ t.main \in bc[r].plan[i]
                   /\ \A b \in bc[r].plan[i] :
                         ~SimGreater(
                            calculate_cosine_similarity(Embedding(b),
                                                        Centroid(bc[r].plan[i])),
                            calculate_cosine_similarity(Embedding(t.main),
                                                        Centroid(bc[r].plan[i])))]_vars

\* C25 (checked under SpecHierarchical): with the hierarchical algorithm a
\* threshold result of fewer clusters than the band minimum is replaced by a
\* clustering into exactly the minimum, one of more than the band maximum
\* by a clustering into exactly the maximum, and any other is kept; the
\* final number of clusters always lies in [min, max] and every article
\* belongs to exactly one of them.
C25_ClusterCountWithinBand ==
    clustered.called =>
        LET groups == clustered.result.groups
            k == Cardinality(groups)
            found == Cardinality(clustered.found.groups)
        IN /\ clustered.result.ok
           /\ clustered.lo <= k /\ k <= clustered.hi
           /\ found < clustered.lo => k = clustered.lo
           /\ found > clustered.hi => k = clustered.hi
           /\ (clustered.lo <= found /\ found <= clustered.hi)
                 => groups = clustered.found.groups
           /\ UNION groups = clustered.articles
           /\ \A g \in groups, h \in groups : g # h => g \cap h = {}
           /\ {} \notin groups

\* SELECT topic_id, centroid_embedding FROM topic WHERE topic_date = d
\* ORDER BY topic_rank
StoredCentroids(T, d) ==
    LET ts == ByRank({t \in T : t.date = d})
    IN [i \in 1..Len(ts) |-> [id |-> ts[i].id, centroid |-> ts[i].centroid]]

CurrentBatches(d) ==
    {t \in TaskIds : task[t].st # "free" /\ task[t].target = d
                      /\ task[t].gen = gen[d]}

\* C27 (checked under SpecCoord): a BatchClusterer invocation for a date is
\* scheduled only after every batch of the most recent dispatch for the
\* date has performed its completion step; an increment by a batch of an
\* earlier dispatch, or by a batch without target date whose first article
\* belongs to the date, never fires the trigger while a batch of the
\* current dispatch is unfinished.
C27_TriggerAfterCurrentDispatch ==
    [][\A d \in Dates :
          scheduled'[d] # scheduled[d]
          => /\ disp.date # d
             /\ \A t \in CurrentBatches(d) : task[t].bumped]_vars


(***************************************************************************)
(* Claims about retries of the enrichment batch task.                      *)
(***************************************************************************)
CounterSection == {"incr", "get", "sched", "del1", "del2"}

\* C28: one enrichment batch task increments completed[D] at most once over
\* all of its executions, retries included: every increment of a counter is
\* the step of one task that has not incremented before and that has just
\* saved its results; from the counter section a task only goes on through
\* the section or returns, it is never re-queued and never fails; and an
\* error raised in the counter section ends the execution with a return.
C28_IncrementsAtMostOnce ==
    [][/\ \A d \in Dates :
             (completed'[d] # completed[d] /\ completed'[d] # Nil)
             => \E t \in TaskIds : /\ task[t].st = "incr"
                                   /\ task'[t].st = "get"
                                   /\ NewsDateStr(t) = d
                                   /\ ~task[t].bumped
       /\ \A t \in TaskIds :
             /\ (task'[t].st = "incr" /\ task[t].st # "incr")
                => task[t].st = "queued"
             /\ (task[t].st \in CounterSection \/ task[t].bumped)
                => /\ task'[t].st \in CounterSection \cup {"success"}
                   /\ task'[t].retries = task[t].retries
                   /\ task'[t].retried = task[t].retried
             /\ (task'[t].rerr /\ ~task[t].rerr) => task'[t].st = "success"]_vars

\* a task that was retried after a failed AI call, then saved its results,
\* incremented the counter, met an error later in the counter section and
\* returned
C28_Witness ==
    \E t \in TaskIds : /\ task[t].retried
                       /\ task[t].bumped
                       /\ task[t].rerr
                       /\ task[t].st = "success"


(***************************************************************************)
(* Claims about the foreign key of the mappings.                           *)
(***************************************************************************)
\* C29: in every reachable state each mapping refers to an existing topic
\* whose date is the mapping's date, also when a BatchClusterer replacement
\* of the date's topics commits between an IncrementalAssigner run's
\* snapshot and its insert.
C29_MappingsReferToTopicOfSameDate ==
    \A m \in mappings : \E t \in topics : t.id = m.topic /\ t.date = m.date

\* a run whose insert named a topic of its snapshot that a replacement had
\* deleted meanwhile: the insert failed on the foreign key, while the
\* replacement's own mappings are stored
C29_Witness ==
    /\ mappings # {}
    /\ \E r \in AssignSlots : /\ ia[r].st = "failed"
                              /\ ia[r].err = "fk"
                              /\ \E i \in 1..Len(ia[r].snap) :
                                    ia[r].snap[i].id \notin TopicIds


(***************************************************************************)
(* Claims about a run of the IncrementalAssigner that fails part-way.      *)
(***************************************************************************)
InPass(a) == a.st \in {"loop", "notopics"}
SameCentroids(T, U) ==
    \A t \in T : \E u \in U : u.id = t.id /\ u.centroid = t.centroid

=============================================================================
